---- MODULE Spec2Model ----
(***************************************************************************)
(* A model of the MQTT-to-HTTP bridge (src/src/bridge.js): the per-endpoint *)
(* fastq work queues, the delivery worker bridgeWorker, the retry protocol  *)
(* requeue and the fan-out messageReceived; the start-up of a bridge         *)
(* (connectToBroker, subscribeToTopics) and the configuration module with   *)
(* its defaults (src/src/index.js).                                         *)
(*                                                                          *)
(* Node runs every callback to completion, so one action is one callback:   *)
(* the 'message' handler, the settlement of one axios.post promise (its     *)
(* then/catch/done chain touches only the task and the queue of its own     *)
(* endpoint, so the microtasks of two chains commute and the chain is taken *)
(* as one step), and the firing of one setTimeout callback.  A timer may    *)
(* fire at any later step: its delay is kept in the timer, and the model    *)
(* allows every order of firing that some choice of delays and response     *)
(* times produces, and possibly more.                                       *)
(***************************************************************************)
EXTENDS Integers, Sequences, FiniteSets, Bags, TLC

\* ---------------------------------------------------------------- bounds
\* Number of inbound broker messages a behaviour receives.
MaxMsgs == 3
\* The POSTs a behaviour may need: a message is received only while
\* messages * endpoints * maxAttempts stays within MaxPosts.
MaxPosts == 6
\* Largest value of the clock Date.now() (abstract time units).
MaxClock == 1
\* Number of direct calls of requeue made by the requeue harness.
MaxCalls == 8
\* Number of messages of a burst that arrives before any POST completes.
BurstMsgs == 7
\* Number of failed broker connect attempts of a behaviour.
MaxConnectFailures == 4
\* Number of failed connect attempts of the other bridge, after which its
\* attempt stays outstanding.
MaxSiblingFailures == 3

\* ---------------------------------------------------------------- inputs
\* The HTTP endpoint URLs a configuration may name.
Urls == {"A", "B"}

\* Inbound (topic, payload) pairs; a payload is a sequence of bytes (here an
\* ASCII byte followed by a byte that is no UTF-8).  Messages differ by the
\* time of their reception.
Inbound == { [topic |-> "t1", payload |-> <<72, 255>>] }

\* Settlements of the promise returned by axios.post: fulfilled (a 2xx
\* response), rejected with err.response (any other status; the mocked tests
\* also reject with 200 and 204), rejected without err.response (network
\* error, timeout).
Statuses == {200, 204, 300, 404, 429, 499, 500, 502, 599}
Outcomes ==
    { [kind |-> "fulfilled", response |-> TRUE, status |-> 200] } \cup
    { [kind |-> "rejected", response |-> TRUE, status |-> s] : s \in Statuses } \cup
    { [kind |-> "rejected", response |-> FALSE, status |-> 0] }

\* Configurations of the bridge the behaviours start from (every field an
\* integer greater than 0, as the configuration validation leaves them).
Configs ==
    [ httpEndpoints : { {"A"}, {"A", "B"} },
      concurrency : {1, 2}, maxAttempts : {1, 2, 3},
      backoffMultiplier : {2}, maxQueueLength : {1, 2},
      topics : { << "t1" >> },
      brokerConnectBackoffMultiplier : {2}, maxBrokerConnectWait : {300000} ]

\* Configurations handed to requeue by the harness (only maxAttempts and
\* backoffMultiplier are read by requeue).
RequeueConfigs ==
    [ httpEndpoints : { {"A", "B"} },
      concurrency : {1}, maxAttempts : 1 .. 5,
      backoffMultiplier : 1 .. 3, maxQueueLength : {1},
      topics : { << "t1" >> },
      brokerConnectBackoffMultiplier : {2}, maxBrokerConnectWait : {300000} ]

\* Configurations of the burst scenario: one endpoint, maxQueueLength 5, a
\* concurrency below, at and above the burst, and the default 10.
BurstConfigs ==
    [ httpEndpoints : { {"A"} },
      concurrency : {1, 2, 3, 10}, maxAttempts : {1},
      backoffMultiplier : {2}, maxQueueLength : {5},
      topics : { << "t1" >> },
      brokerConnectBackoffMultiplier : {2}, maxBrokerConnectWait : {300000} ]

\* Configurations of the bridges whose start-up is followed: one, two and a
\* repeated topic; a wait limit below the first delay, between the delays
\* and above them all.
ConnectConfigs ==
    [ httpEndpoints : { {"A"} },
      concurrency : {1}, maxAttempts : {1},
      backoffMultiplier : {2}, maxQueueLength : {1},
      topics : { << "t1" >>, << "t1", "t2" >>, << "t1", "t1" >> },
      brokerConnectBackoffMultiplier : {1, 2, 3},
      maxBrokerConnectWait : {500, 3000, 300000} ]

VARIABLES
    config,         \* the bridge configuration object
    now,            \* the value Date.now() returns
    messagesCount,  \* messagesCount of the bridge closure
    msgs,           \* the queueMsg objects created so far, by creation order
    queue,          \* queue[e]: the waiting list of fastq queue e (object ids)
    running,        \* running[e]: the objects whose worker is in flight at e
    timers,         \* bag of pending setTimeout callbacks of requeue
    posted,         \* posted[e][m]: bodies of the axios.post calls, in order
    fate,           \* fate[e][m]: how message m ended at endpoint e
    returned,       \* return values of the harness's requeue calls, in order
    broker,         \* the start-up of the bridge and its broker client
    logged,         \* bag of the log records of level warn and error
    sibling,        \* the start-up of another bridge of the same process
    diagnostics     \* the periodic diagnostics of the process

vars == << config, now, messagesCount, msgs, queue, running, timers,
           posted, fate, returned, broker, logged, sibling, diagnostics >>

Ids == 1 .. Len(msgs)

\* Object.keys(queues): one queue per configured endpoint.
Endpoints == config.httpEndpoints

\* ------------------------------------------------------------- helpers
RECURSIVE Pow(_, _)
\* Math.pow(b, n) for non-negative integers (exact in doubles at this size).
Pow(b, n) == IF n = 0 THEN 1 ELSE b * Pow(b, n - 1)

\* Buffer.toString(): UTF-8 decoding; a byte that starts no valid sequence
\* decodes to U+FFFD (65533).  Only ASCII and lone invalid bytes are drawn.
BufferToString(payload) ==
    [ i \in 1 .. Len(payload) |->
        IF payload[i] < 128 THEN payload[i] ELSE 65533 ]


\* ------------------------------------------------------------ fastq queue
\* Variant: the slot test never finds the queue saturated.
SaturatedNever(e) == Cardinality(running[e]) > config.concurrency

\* fastq push: "_running === self.concurrency" decides between the waiting
\* list and an immediate start of the worker.
Saturated(e) == Cardinality(running[e]) = config.concurrency

\* Variant: every worker is bound to one and the same endpoint.
WorkerEndpointUnbound(e) == CHOOSE x \in Endpoints : TRUE

\* fastq(bridgeWorker.bind(null, log, config, queues, endpoint), concurrency):
\* the worker of the queue of endpoint e posts to, and requeues on, e.
WorkerEndpoint(e) == e

\* Variant: the body is stamped again when it is posted.
BridgeWorkerBodyRestamped(queueMsg) == [queueMsg.data EXCEPT !.time = now]

\* The body bridgeWorker hands to axios.post: queueMsg.data, as it is.
BridgeWorkerBody(queueMsg) == queueMsg.data

\* ---------------------------------------------------------------- requeue
\* The return value of a requeue call: a number, or undefined when the call
\* schedules nothing.
Undefined == [ defined |-> FALSE, value |-> 0 ]
Number(n) == [ defined |-> TRUE, value |-> n ]

\* Variants: the guard compares with <=, or stops one attempt early.
RequeueSchedulesInclusive(cfg, queueMsg) ==
    queueMsg.attempts <= cfg.maxAttempts - 1
RequeueSchedulesEarlyStop(cfg, queueMsg) ==
    queueMsg.attempts < cfg.maxAttempts - 2

\* requeue's guard: queueMsg.attempts < config.maxAttempts - 1.
RequeueSchedules(cfg, queueMsg) == queueMsg.attempts < cfg.maxAttempts - 1

\* Variant: the delay is computed from the incremented counter.
RequeueTimeoutAfterIncrement(cfg, queueMsg) ==
    Pow(cfg.backoffMultiplier, queueMsg.attempts + 1) * 1000

\* requeue's delay: Math.pow(config.backoffMultiplier, attempts) * 1000.
RequeueTimeout(cfg, queueMsg) ==
    Pow(cfg.backoffMultiplier, queueMsg.attempts) * 1000

\* What requeue returns: the timeout, or undefined when it is skipped.
RequeueReturn(cfg, queueMsg) ==
    IF RequeueSchedules(cfg, queueMsg)
    THEN Number(RequeueTimeout(cfg, queueMsg)) ELSE Undefined

\* requeue(log, config, queues, httpEndpoint, queueMsg): schedules the push
\* of the same object on the queue of httpEndpoint and increments attempts
\* at once; otherwise only logs the error.
\* Variant: the timer is set and the attempt is not counted.
RequeueWithoutCount(e, m) ==
    IF RequeueSchedules(config, msgs[m])
    THEN /\ timers' = timers (+) SetToBag({ [ep |-> e, msg |-> m,
                          timeout |-> RequeueTimeout(config, msgs[m])] })
         /\ UNCHANGED msgs
    ELSE UNCHANGED << timers, msgs >>

Requeue(e, m) ==
    IF RequeueSchedules(config, msgs[m])
    THEN /\ timers' = timers (+) SetToBag({ [ep |-> e, msg |-> m,
                          timeout |-> RequeueTimeout(config, msgs[m])] })
         /\ msgs' = [msgs EXCEPT ![m].attempts = @ + 1]
    ELSE UNCHANGED << timers, msgs >>

\* ----------------------------------------------------------- bridgeWorker
\* Variants: status 500 itself is not retried; every status from 400 on is.
ShouldRequeueAbove500(o) ==
    /\ o.kind = "rejected"
    /\ IF o.response THEN o.status = 429 \/ o.status > 500 ELSE TRUE
ShouldRequeueClientErrors(o) ==
    /\ o.kind = "rejected"
    /\ IF o.response THEN o.status >= 400 ELSE TRUE

\* The catch handler's decision to call requeue.
ShouldRequeue(o) ==
    /\ o.kind = "rejected"
    /\ IF o.response THEN o.status = 429 \/ o.status >= 500 ELSE TRUE

\* A record of the logger: its level, what it reports, and the endpoint and
\* message (or the connect attempt) it is about.  Records of level debug
\* are left out.
Record(level, event, ep, msg) ==
    [ level |-> level, event |-> event, ep |-> ep, msg |-> msg ]

\* Variant: requeue reports every call at level error.
RequeueLogAlways(cfg, queueMsg, e, m) ==
    SetToBag({ Record("error", "maxAttempts", e, m) })

\* The records of one call of requeue: log.error when the attempts are used
\* up, nothing above debug otherwise.
RequeueLog(cfg, queueMsg, e, m) ==
    IF RequeueSchedules(cfg, queueMsg)
    THEN EmptyBag
    ELSE SetToBag({ Record("error", "maxAttempts", e, m) })

\* The records of one settlement in bridgeWorker: log.warn for every
\* rejection, then those of requeue when it is called.
WorkerLog(e, m, o) ==
    (IF o.kind = "rejected"
     THEN SetToBag({ Record("warn", "failed", WorkerEndpoint(e), m) })
     ELSE EmptyBag)
    (+) (IF ShouldRequeue(o)
         THEN RequeueLog(config, msgs[m], WorkerEndpoint(e), m)
         ELSE EmptyBag)

\* Variant: the worker never calls done.
DoneNeverCalled(e, m) == UNCHANGED << queue, running, posted >>

\* .then(done): the worker of m gives its slot back, and fastq hands the
\* slot to the head of the waiting list, if there is one.
Done(e, m) ==
    IF queue[e] # << >>
    THEN LET next == Head(queue[e]) IN
         /\ queue' = [queue EXCEPT ![e] = Tail(@)]
         /\ running' = [running EXCEPT ![e] = (@ \ {m}) \cup {next}]
         /\ posted' = [posted EXCEPT ![WorkerEndpoint(e)][next] =
                          Append(@, BridgeWorkerBody(msgs'[next]))]
    ELSE /\ running' = [running EXCEPT ![e] = @ \ {m}]
         /\ UNCHANGED << queue, posted >>

\* The settlement o of the axios.post of object m at endpoint e, through
\* then / catch / then(done); done releases the fastq slot, which starts the
\* head of the waiting list if there is one.
Response(e, m, o) ==
    /\ m \in running[e]
    /\ IF ShouldRequeue(o)
       THEN Requeue(WorkerEndpoint(e), m)
       ELSE UNCHANGED << timers, msgs >>
    /\ fate' = [fate EXCEPT ![e][m] =
                   IF o.kind = "fulfilled" THEN "success"
                   ELSE IF ~ShouldRequeue(o) THEN "final"
                   ELSE IF RequeueSchedules(config, msgs[m]) THEN @
                   ELSE "abandoned"]
    /\ logged' = logged (+) WorkerLog(e, m, o)
    /\ Done(e, m)
    /\ UNCHANGED << config, now, messagesCount, returned, broker, sibling,
                    diagnostics >>

\* The setTimeout callback of requeue: queue.push(queueMsg), unconditionally.
TimerFired(t) ==
    /\ t \in BagToSet(timers)
    /\ timers' = timers (-) SetToBag({t})
    /\ IF Saturated(t.ep)
       THEN /\ queue' = [queue EXCEPT ![t.ep] = Append(@, t.msg)]
            /\ UNCHANGED << running, posted >>
       ELSE /\ running' = [running EXCEPT ![t.ep] = @ \cup {t.msg}]
            /\ posted' = [posted EXCEPT ![WorkerEndpoint(t.ep)][t.msg] =
                             Append(@, BridgeWorkerBody(msgs[t.msg]))]
            /\ UNCHANGED queue
    /\ UNCHANGED << config, now, messagesCount, msgs, fate, returned, broker,
                    logged, sibling,
                    diagnostics >>

\* -------------------------------------------------------- messageReceived
\* Variants: the length test admits at the maximum; it refuses one early.
AdmitsAtMaximum(e) == Len(queue[e]) <= config.maxQueueLength
AdmitsOneLess(e) == Len(queue[e]) < config.maxQueueLength - 1

\* Variant: one full queue stops the admission to every queue.
AdmitsAllOrNone(e) ==
    \A x \in Endpoints : Len(queue[x]) < config.maxQueueLength

\* The admission test of messageReceived for one endpoint.
Admits(e) == Len(queue[e]) < config.maxQueueLength

\* The 'message' handler: counts the message, builds one queueMsg object and
\* offers it to every queue; an admitted object starts at once when the
\* queue has a free slot.
OnMessage(in) ==
    LET queueMsg == [ data |-> [ topic |-> in.topic,
                                 message |-> BufferToString(in.payload),
                                 time |-> now ],
                      attempts |-> 0 ]
        id == Len(msgs) + 1
    IN  /\ messagesCount' = messagesCount + 1
        /\ msgs' = Append(msgs, queueMsg)
        /\ queue' = [ e \in Endpoints |->
                        IF Admits(e) /\ Saturated(e)
                        THEN Append(queue[e], id) ELSE queue[e] ]
        /\ running' = [ e \in Endpoints |->
                          IF Admits(e) /\ ~Saturated(e)
                          THEN running[e] \cup {id} ELSE running[e] ]
        /\ posted' = [ x \in Endpoints |->
                         Append(posted[x],
                                [ i \in 1 .. Cardinality(
                                      { e \in Endpoints :
                                          /\ Admits(e) /\ ~Saturated(e)
                                          /\ WorkerEndpoint(e) = x })
                                  |-> BridgeWorkerBody(queueMsg) ]) ]
        /\ fate' = [ e \in Endpoints |->
                       Append(fate[e],
                              IF Admits(e) THEN "none" ELSE "dropped") ]
        /\ logged' = logged (+) SetToBag({ Record("error", "queueFull", e, id) :
                                              e \in { x \in Endpoints : ~Admits(x) } })
        /\ UNCHANGED << config, now, timers, returned, broker, sibling,
                    diagnostics >>

\* The broker delivers a message to the running bridge, within the budget of
\* messages and POSTs of a behaviour.
MessageReceived(in) ==
    /\ messagesCount < MaxMsgs
    /\ (messagesCount + 1) * Cardinality(Endpoints) * config.maxAttempts
          <= MaxPosts
    /\ OnMessage(in)

\* Date.now() advances.
Tick ==
    /\ now < MaxClock
    /\ now' = now + 1
    /\ UNCHANGED << config, messagesCount, msgs, queue, running, timers,
                    posted, fate, returned, broker,
                    logged, sibling,
                    diagnostics >>

\* ------------------------------------------------------------ the bridge
\* PRINT_DIAGNOSTICS is not 'true': no diagnostics timer is set.
NoDiagnostics ==
    [ enabled |-> FALSE, lastMessageCount |-> 0, reported |-> FALSE,
      queueLengths |-> << >>, messageCount |-> 0, incremental |-> 0 ]

\* No other bridge is configured.
NoSibling ==
    [ phase |-> "none", attempt |-> 0, delays |-> << >>,
      config |-> [ brokerConnectBackoffMultiplier |-> 2,
                   maxBrokerConnectWait |-> 300000 ] ]

\* The start-up record of a bridge that connected at the first attempt and
\* whose subscriptions were all acknowledged.
Established(cfg) ==
    [ phase |-> "ready", attempt |-> 0, connects |-> 1, delays |-> << >>,
      subscribed |-> cfg.topics, pending |-> {}, listening |-> TRUE,
      unheard |-> 0, last |-> "suback", error |-> "" ]

\* The bridge once module.exports has resolved: connected, subscribed, one
\* empty queue per endpoint, no message counted.
Init ==
    /\ config \in Configs
    /\ now = 0
    /\ messagesCount = 0
    /\ msgs = << >>
    /\ queue = [ e \in Endpoints |-> << >> ]
    /\ running = [ e \in Endpoints |-> {} ]
    /\ timers = EmptyBag
    /\ posted = [ e \in Endpoints |-> << >> ]
    /\ fate = [ e \in Endpoints |-> << >> ]
    /\ returned = << >>
    /\ logged = EmptyBag
    /\ sibling = NoSibling
    /\ diagnostics = NoDiagnostics
    /\ broker = Established(config)

Next ==
    \/ \E in \in Inbound : MessageReceived(in)
    \/ \E e \in Endpoints : \E m \in Ids : \E o \in Outcomes : Response(e, m, o)
    \/ \E t \in BagToSet(timers) : TimerFired(t)
    \/ Tick

Spec == Init /\ [][Next]_vars

\* --------------------------------------------------- settlement in the end
\* The bridge when every POST is settled in the end (the endpoint answers,
\* the connection fails, or the config.timeout of axios.post expires) and
\* every timer that was set fires.
SpecSettle ==
    /\ Init /\ [][Next]_vars
    /\ WF_vars(\E e \in Endpoints : \E m \in Ids : \E o \in Outcomes :
                  Response(e, m, o))
    /\ WF_vars(\E t \in BagToSet(timers) : TimerFired(t))

\* ------------------------------------------------- successful deliveries
\* The settlement of a POST the endpoint answers with a 2xx response.
Success(e, m) ==
    Response(e, m, [kind |-> "fulfilled", response |-> TRUE, status |-> 200])

\* A bridge with one endpoint.
InitDeliver == Init /\ config.httpEndpoints = {"A"}

NextDeliver ==
    \/ \E in \in Inbound : MessageReceived(in)
    \/ \E e \in Endpoints : \E m \in Ids : Success(e, m)
    \/ Tick

\* One endpoint that answers every POST with success.  A POST in flight is
\* settled in the end: the endpoint answers, and axios.post is given
\* config.timeout, so the settlement is weakly fair.
SpecDeliver ==
    /\ InitDeliver /\ [][NextDeliver]_vars
    /\ WF_vars(\E e \in Endpoints : \E m \in Ids : Success(e, m))

\* ------------------------------------------------------------- the burst
\* A message of a burst: it arrives while every POST is still outstanding.
BurstMessage(in) ==
    /\ messagesCount < BurstMsgs
    /\ OnMessage(in)

InitBurst ==
    /\ config \in BurstConfigs
    /\ now = 0
    /\ messagesCount = 0
    /\ msgs = << >>
    /\ queue = [ e \in Endpoints |-> << >> ]
    /\ running = [ e \in Endpoints |-> {} ]
    /\ timers = EmptyBag
    /\ posted = [ e \in Endpoints |-> << >> ]
    /\ fate = [ e \in Endpoints |-> << >> ]
    /\ returned = << >>
    /\ logged = EmptyBag
    /\ sibling = NoSibling
    /\ diagnostics = NoDiagnostics
    /\ broker = Established(config)

NextBurst ==
    \/ \E in \in Inbound : BurstMessage(in)
    \/ Tick

SpecBurst == InitBurst /\ [][NextBurst]_vars

\* ------------------------------------------------- the start-up of a bridge
\* Variant: the third failed attempt is the last.
ConnectGivesUpAfterTwo(attempt) == attempt >= 2

\* connectToBroker has no limit of attempts: its catch always reschedules.
ConnectGivesUp(attempt) == FALSE

\* Variant: the delay is not capped.
ConnectTimeoutUncapped(cfg, attempt) ==
    Pow(cfg.brokerConnectBackoffMultiplier, attempt) * 1000

\* The delay before the next connect attempt.
ConnectTimeout(cfg, attempt) ==
    LET timeout == Pow(cfg.brokerConnectBackoffMultiplier, attempt) * 1000
    IN  IF timeout > cfg.maxBrokerConnectWait
        THEN cfg.maxBrokerConnectWait
        ELSE timeout

\* The promise of mqtt.connectAsync is rejected: the catch handler computes
\* the delay, sets the timer and counts the attempt.
ConnectFailed ==
    /\ broker.phase = "connecting"
    /\ broker.attempt < MaxConnectFailures
    /\ broker' =
          IF ConnectGivesUp(broker.attempt)
          THEN [broker EXCEPT !.phase = "exited", !.error = "connect",
                              !.last = "connectFailed"]
          ELSE [broker EXCEPT
                  !.phase = "backoff",
                  !.delays = Append(@, ConnectTimeout(config, broker.attempt)),
                  !.attempt = @ + 1,
                  !.last = "connectFailed"]
    /\ logged' = logged (+) SetToBag({ Record("error", "connectFailed",
                                              "broker", broker.attempt) })
    /\ UNCHANGED << config, now, messagesCount, msgs, queue, running, timers,
                    posted, fate, returned, sibling,
                    diagnostics >>

\* Variant: the timer starts two attempts.
ConnectTimerFiredTwice ==
    /\ broker.phase = "backoff"
    /\ broker' = [broker EXCEPT !.phase = "connecting", !.connects = @ + 2,
                                !.last = "timer"]
    /\ UNCHANGED << config, now, messagesCount, msgs, queue, running, timers,
                    posted, fate, returned, logged, sibling,
                    diagnostics >>

\* The timer set by the catch handler fires: attemptConnection runs again.
ConnectTimerFired ==
    /\ broker.phase = "backoff"
    /\ broker' = [broker EXCEPT !.phase = "connecting", !.connects = @ + 1,
                                !.last = "timer"]
    /\ UNCHANGED << config, now, messagesCount, msgs, queue, running, timers,
                    posted, fate, returned,
                    logged, sibling,
                    diagnostics >>

\* The promise of mqtt.connectAsync is fulfilled: connectToBroker resolves
\* and subscribeToTopics calls subscribe for every entry of config.topics.
ConnectSucceeded ==
    /\ broker.phase = "connecting"
    /\ broker' = [broker EXCEPT !.phase = "subscribing",
                                !.subscribed = @ \o config.topics,
                                !.pending = 1 .. Len(config.topics),
                                !.last = "connected"]
    /\ UNCHANGED << config, now, messagesCount, msgs, queue, running, timers,
                    posted, fate, returned,
                    logged, sibling,
                    diagnostics >>

\* Variant: the failure of Promise.all is swallowed.
BridgeResolvesAlways(allOk) == TRUE

\* subscribeToTopics rethrows the rejection of Promise.all, and
\* module.exports goes on past its await only when nothing was thrown.
BridgeResolves(allOk) == allOk

\* The promise of the i-th subscribe call settles.  Promise.all is rejected
\* by the first rejection and fulfilled by the last fulfilment.  When it is
\* fulfilled the queues are created and the 'message' handler is installed;
\* when it is rejected the bridge promise is rejected and the catch of the
\* creation loop ends the process.
SubscribeSettled(i, ok) ==
    /\ broker.phase = "subscribing"
    /\ i \in broker.pending
    /\ LET rest == broker.pending \ {i}
           event == IF ok THEN "suback" ELSE "subscribeFailed"
       IN  IF ok /\ rest # {}
           THEN /\ broker' = [broker EXCEPT !.pending = rest, !.last = event]
                /\ UNCHANGED << queue, running >>
           ELSE IF BridgeResolves(ok)
           THEN /\ broker' = [broker EXCEPT !.phase = "ready",
                                            !.pending = rest,
                                            !.listening = TRUE,
                                            !.last = event]
                /\ queue' = [ e \in Endpoints |-> << >> ]
                /\ running' = [ e \in Endpoints |-> {} ]
           ELSE /\ broker' = [broker EXCEPT !.phase = "exited",
                                            !.error = "subscribe",
                                            !.last = event]
                /\ UNCHANGED << queue, running >>
    /\ UNCHANGED << config, now, messagesCount, msgs, timers, posted, fate,
                    returned,
                    logged, sibling,
                    diagnostics >>

\* The client emits 'message' while a part of the subscriptions is
\* acknowledged and Promise.all is still pending: no handler is installed.
Unheard(in) ==
    /\ broker.phase = "subscribing"
    /\ broker.pending # 1 .. Len(config.topics)
    /\ ~broker.listening
    /\ broker.unheard < MaxMsgs
    /\ broker' = [broker EXCEPT !.unheard = @ + 1, !.last = "message"]
    /\ UNCHANGED << config, now, messagesCount, msgs, queue, running, timers,
                    posted, fate, returned,
                    logged, sibling,
                    diagnostics >>

\* Variant: the 'connect' handler subscribes again.
OnConnectEventResubscribes(calls) == calls \o config.topics

\* The 'connect' handler of module.exports only logs.
OnConnectEvent(calls) == calls

\* The client reconnected by itself and emits 'connect'.
ConnectEvent ==
    /\ broker.phase = "ready"
    /\ broker' = [broker EXCEPT !.subscribed = OnConnectEvent(@),
                                !.last = "connect"]
    /\ UNCHANGED << config, now, messagesCount, msgs, queue, running, timers,
                    posted, fate, returned,
                    logged, sibling,
                    diagnostics >>

\* bridge(log, config) was called: no queue exists, the first connect
\* attempt is outstanding.
InitConnect ==
    /\ config \in ConnectConfigs
    /\ now = 0
    /\ messagesCount = 0
    /\ msgs = << >>
    /\ queue = << >>
    /\ running = << >>
    /\ timers = EmptyBag
    /\ posted = [ e \in Endpoints |-> << >> ]
    /\ fate = [ e \in Endpoints |-> << >> ]
    /\ returned = << >>
    /\ logged = EmptyBag
    /\ sibling = NoSibling
    /\ diagnostics = NoDiagnostics
    /\ broker = [ phase |-> "connecting", attempt |-> 0, connects |-> 1,
                  delays |-> << >>, subscribed |-> << >>, pending |-> {},
                  listening |-> FALSE, unheard |-> 0, last |-> "start",
                  error |-> "" ]

NextConnect ==
    \/ ConnectFailed
    \/ ConnectTimerFired
    \/ ConnectSucceeded
    \/ \E i \in broker.pending : \E ok \in BOOLEAN : SubscribeSettled(i, ok)
    \/ \E in \in Inbound : Unheard(in)
    \/ ConnectEvent
    \/ \E in \in Inbound : broker.listening /\ MessageReceived(in)
    \/ \E e \in DOMAIN running : \E m \in Ids : \E o \in Outcomes :
          Response(e, m, o)

\* Node fires every timer that was set, so the retry timer is weakly fair.
SpecConnect ==
    /\ InitConnect /\ [][NextConnect]_vars
    /\ WF_vars(ConnectTimerFired)

\* ------------------------------------------------- two bridges, one process
\* Variant: the creation loop awaits a bridge before it creates the next.
LoopAwaits(sib) == sib.phase = "ready"

\* The creation loop calls bridge() for the next table whatever became of
\* the bridge before: the promise is given a then and a catch, not awaited.
LoopContinues(sib) == TRUE

\* The first turn of the creation loop: bridge() is called for the other
\* table and its first connect attempt is outstanding.
CreateSibling ==
    /\ sibling.phase = "pending"
    /\ sibling' = [sibling EXCEPT !.phase = "connecting"]
    /\ UNCHANGED << config, now, messagesCount, msgs, queue, running, timers,
                    posted, fate, returned, broker, logged,
                    diagnostics >>

\* The second turn of the creation loop: bridge() is called for the table
\* of the bridge.
CreateBridge ==
    /\ broker.phase = "pending"
    /\ sibling.phase # "pending"
    /\ LoopContinues(sibling)
    /\ broker' = [broker EXCEPT !.phase = "connecting", !.connects = 1,
                                !.last = "start"]
    /\ UNCHANGED << config, now, messagesCount, msgs, queue, running, timers,
                    posted, fate, returned, logged, sibling,
                    diagnostics >>

\* A connect attempt of the other bridge is rejected (callbacks run once the
\* loop has ended): the catch of its own attemptConnection sets its timer.
SiblingConnectFailed ==
    /\ sibling.phase = "connecting"
    /\ broker.phase # "pending"
    /\ sibling.attempt < MaxSiblingFailures
    /\ sibling' = [sibling EXCEPT
                     !.phase = "backoff",
                     !.delays = Append(@, ConnectTimeout(sibling.config,
                                                         sibling.attempt)),
                     !.attempt = @ + 1]
    /\ logged' = logged (+) SetToBag({ Record("error", "connectFailed",
                                              "sibling", sibling.attempt) })
    /\ UNCHANGED << config, now, messagesCount, msgs, queue, running, timers,
                    posted, fate, returned, broker,
                    diagnostics >>

\* The connect timer of the other bridge fires.
SiblingTimerFired ==
    /\ sibling.phase = "backoff"
    /\ sibling' = [sibling EXCEPT !.phase = "connecting"]
    /\ UNCHANGED << config, now, messagesCount, msgs, queue, running, timers,
                    posted, fate, returned, broker, logged,
                    diagnostics >>

\* The configuration is loaded and the creation loop is about to run.
InitBridges ==
    /\ config \in ConnectConfigs
    /\ now = 0
    /\ messagesCount = 0
    /\ msgs = << >>
    /\ queue = << >>
    /\ running = << >>
    /\ timers = EmptyBag
    /\ posted = [ e \in Endpoints |-> << >> ]
    /\ fate = [ e \in Endpoints |-> << >> ]
    /\ returned = << >>
    /\ logged = EmptyBag
    /\ broker = [ phase |-> "pending", attempt |-> 0, connects |-> 0,
                  delays |-> << >>, subscribed |-> << >>, pending |-> {},
                  listening |-> FALSE, unheard |-> 0, last |-> "",
                  error |-> "" ]
    /\ sibling = [ phase |-> "pending", attempt |-> 0, delays |-> << >>,
                   config |-> [ brokerConnectBackoffMultiplier |-> 2,
                                maxBrokerConnectWait |-> 3000 ] ]
    /\ diagnostics = NoDiagnostics

\* The broker of the other bridge is down, the broker and the endpoint of
\* the bridge are up.
NextBridges ==
    \/ CreateSibling
    \/ CreateBridge
    \/ SiblingConnectFailed
    \/ SiblingTimerFired
    \/ ConnectSucceeded
    \/ \E i \in broker.pending : SubscribeSettled(i, TRUE)
    \/ \E in \in Inbound : broker.listening /\ MessageReceived(in)
    \/ \E e \in DOMAIN running : \E m \in Ids : Success(e, m)

\* The loop runs to its end, and the broker and the endpoint of the bridge
\* answer in the end.
SpecBridges ==
    /\ InitBridges /\ [][NextBridges]_vars
    /\ WF_vars(CreateSibling) /\ WF_vars(CreateBridge)
    /\ WF_vars(ConnectSucceeded)
    /\ WF_vars(\E i \in broker.pending : SubscribeSettled(i, TRUE))
    /\ WF_vars(\E e \in DOMAIN running : \E m \in Ids : Success(e, m))

\* ------------------------------------------------------ the configuration
\* The defaults of the configuration module.
DEFAULT_CONCURRENCY == 10
DEFAULT_MAX_ATTEMPTS == 5
DEFAULT_BACKOFF_MULTIPLIER == 2
DEFAULT_TIMEOUT == 60000
DEFAULT_MAX_QUEUE_LENGTH == 1000
DEFAULT_MAX_BROKER_CONNECT_WAIT == 300000
DEFAULT_BROKER_CONNECT_BACKOFF_MULTIPLIER == 2

\* The fields the validation loop tests, in its order.
integerConfigFields ==
    << "concurrency", "maxAttempts", "backOffMultiplier", "maxQueueLength",
       "timeout", "maxBrokerConnectWait", "brokerConnectBackoffMultiplier" >>

\* A bridge table of the parsed TOML file is a function from the keys it
\* has to their values; a key it has not reads as undefined.
Has(t, key) == key \in DOMAIN t

\* The tables with at most the key `key`, its value taken from `values`.
Opt(key, values) == { << >> } \cup { key :> v : v \in values }

\* The bridge tables handed to the configuration module.  The numbers are
\* TOML integers: absent, zero, negative or positive.  The multiplier of
\* the forward attempts appears under the key of the README
\* (backOffMultiplier), under the key the bridge reads (backoffMultiplier),
\* under both or under none.
Tables ==
    { a @@ b @@ c @@ d @@ e @@ f @@ g @@ h @@ r :
        a \in Opt("concurrency", {3}),
        b \in Opt("maxAttempts", {0, 4}),
        c \in Opt("backOffMultiplier", {-1, 0, 1, 3}),
        d \in Opt("backoffMultiplier", {-1, 0, 3, 4}),
        e \in Opt("maxQueueLength", {7}),
        f \in Opt("timeout", {500}),
        g \in Opt("maxBrokerConnectWait", {3000}),
        h \in Opt("brokerConnectBackoffMultiplier", {3}),
        r \in [ httpEndpoints : { {}, {"A"} },
                mqttEndpoint : { [protocol |-> "mqtt:"], [protocol |-> "ftp:"] },
                topics : { << >>, << "t1" >> } ] }

\* isValidNumber: undefined is valid, a number must be an integer > 0 (the
\* numbers of Tables are integers).
IsValidNumber(t, field) == ~Has(t, field) \/ t[field] > 0

\* bridge[field] || dflt: undefined and 0 are falsy.
OrDefault(t, field, dflt) ==
    IF Has(t, field) /\ t[field] # 0 THEN t[field] ELSE dflt

\* The value stored under bridge.backoffMultiplier.
MultiplierKey(t) ==
    OrDefault(t, "backoffMultiplier", DEFAULT_BACKOFF_MULTIPLIER)

\* The assignments of the defaults: the table is changed in place and keeps
\* every other key it had.
WithDefaults(t) ==
    [ concurrency |-> OrDefault(t, "concurrency", DEFAULT_CONCURRENCY),
      maxAttempts |-> OrDefault(t, "maxAttempts", DEFAULT_MAX_ATTEMPTS),
      timeout |-> OrDefault(t, "timeout", DEFAULT_TIMEOUT),
      backoffMultiplier |-> MultiplierKey(t),
      maxQueueLength |->
          OrDefault(t, "maxQueueLength", DEFAULT_MAX_QUEUE_LENGTH),
      maxBrokerConnectWait |->
          OrDefault(t, "maxBrokerConnectWait", DEFAULT_MAX_BROKER_CONNECT_WAIT),
      brokerConnectBackoffMultiplier |->
          OrDefault(t, "brokerConnectBackoffMultiplier",
                    DEFAULT_BROKER_CONNECT_BACKOFF_MULTIPLIER) ] @@ t

\* The first complaint of the validation of one bridge table, "" if none.
Complaint(t) ==
    LET bad == { i \in 1 .. Len(integerConfigFields) :
                   ~IsValidNumber(t, integerConfigFields[i]) }
    IN  IF bad # {}
        THEN integerConfigFields[CHOOSE i \in bad : \A j \in bad : i <= j]
        ELSE IF t.httpEndpoints = {} THEN "httpEndpoints"
        ELSE IF t.mqttEndpoint.protocol
                   \notin {"mqtt:", "mqtts:", "ws:", "wss:"}
             THEN "mqttEndpoint"
        ELSE IF t.topics = << >> THEN "topics"
        ELSE ""

\* The start of the process: the configuration is validated and completed;
\* an error ends the process, otherwise the bridge is created and makes its
\* first connect attempt.
LoadConfig ==
    /\ broker.phase = "loading"
    /\ config' =
          IF \A i \in 1 .. Len(integerConfigFields) :
                IsValidNumber(config, integerConfigFields[i])
          THEN WithDefaults(config)
          ELSE config
    /\ broker' =
          IF Complaint(config) = ""
          THEN [broker EXCEPT !.phase = "connecting", !.connects = 1,
                              !.last = "start"]
          ELSE [broker EXCEPT !.phase = "exited", !.last = "invalid",
                              !.error = Complaint(config)]
    /\ UNCHANGED << now, messagesCount, msgs, queue, running, timers,
                    posted, fate, returned,
                    logged, sibling,
                    diagnostics >>

InitConfig ==
    /\ config \in Tables
    /\ now = 0
    /\ messagesCount = 0
    /\ msgs = << >>
    /\ queue = << >>
    /\ running = << >>
    /\ timers = EmptyBag
    /\ posted = << >>
    /\ fate = << >>
    /\ returned = << >>
    /\ logged = EmptyBag
    /\ sibling = NoSibling
    /\ diagnostics = NoDiagnostics
    /\ broker = [ phase |-> "loading", attempt |-> 0, connects |-> 0,
                  delays |-> << >>, subscribed |-> << >>, pending |-> {},
                  listening |-> FALSE, unheard |-> 0, last |-> "",
                  error |-> "" ]

NextConfig == LoadConfig

SpecConfig == InitConfig /\ [][NextConfig]_vars

\* ---------------------------------------------------- the requeue harness
\* test/bridge.test.js calls requeue directly, again and again, on one
\* queueMsg object that starts at attempts 0; its timers never fire.
RequeueCall(e) ==
    /\ Len(returned) < MaxCalls
    /\ returned' = Append(returned, RequeueReturn(config, msgs[1]))
    /\ Requeue(e, 1)
    /\ logged' = logged (+) RequeueLog(config, msgs[1], e, 1)
    /\ UNCHANGED << config, now, messagesCount, queue, running, posted, fate,
                    broker, sibling,
                    diagnostics >>

InitRequeue ==
    /\ config \in RequeueConfigs
    /\ now = 0
    /\ messagesCount = 0
    /\ msgs = << [ data |-> [ topic |-> "topic", message |-> << >>,
                              time |-> 0 ],
                   attempts |-> 0 ] >>
    /\ queue = [ e \in Endpoints |-> << >> ]
    /\ running = [ e \in Endpoints |-> {} ]
    /\ timers = EmptyBag
    /\ posted = [ e \in Endpoints |-> << << >> >> ]
    /\ fate = [ e \in Endpoints |-> << "none" >> ]
    /\ returned = << >>
    /\ logged = EmptyBag
    /\ sibling = NoSibling
    /\ diagnostics = NoDiagnostics
    /\ broker = Established(config)

NextRequeue == \E e \in Endpoints : RequeueCall(e)

SpecRequeue == InitRequeue /\ [][NextRequeue]_vars


\* =================================================================== claims

\* The tasks of message m the bridge holds for endpoint e.
Queued(e, m) == \E i \in 1 .. Len(queue[e]) : queue[e][i] = m
TimerPending(e, m) == \E t \in BagToSet(timers) : t.ep = e /\ t.msg = m
Live(e, m) == Queued(e, m) \/ m \in running[e] \/ TimerPending(e, m)

\* C1: for every endpoint queue, in every reachable state, the number of
\* pending tasks in the queue is at most maxQueueLength.
C1_QueueLengthBounded ==
    \A e \in Endpoints : Len(queue[e]) <= config.maxQueueLength

\* C2: each endpoint has its own task with its own attempts counter: the
\* settlement of the POST of message m at endpoint e leaves the attempts
\* counter of the task of m held for any other endpoint unchanged.
C2_AttemptsPerEndpoint ==
    [][ \A e \in Endpoints : \A m \in Ids :
          (m \in running[e] /\ m \notin running'[e])
          => \A e2 \in Endpoints \ {e} :
                Live(e2, m) => msgs'[m].attempts = msgs[m].attempts ]_vars

\* C3: for every inbound message and every endpoint, the number of POSTs of
\* the message to the endpoint never exceeds maxAttempts.
C3_PostsBounded ==
    \A e \in Endpoints : \A m \in Ids :
        Len(posted[e][m]) <= config.maxAttempts

\* C3 witness: a message was POSTed maxAttempts (3) times to one endpoint and
\* abandoned there after the last failure.
C3_Witness ==
    \E e \in Endpoints : \E m \in Ids :
        /\ config.maxAttempts = 3
        /\ Len(posted[e][m]) = 3
        /\ fate[e][m] = "abandoned"

\* The harness calls that returned a delay.
Scheduled == { i \in 1 .. Len(returned) : returned[i].defined }

\* C4: of any number of successive requeue calls on a task starting at
\* attempts 0, exactly the first maxAttempts - 1 schedule a timer and
\* increment attempts; every later call schedules no timer, returns no delay
\* and leaves attempts at maxAttempts - 1.
C4_RequeueCap ==
    LET n == Len(returned)
        cap == config.maxAttempts - 1
        k == IF n < cap THEN n ELSE cap
    IN  /\ \A i \in 1 .. n : returned[i].defined <=> (i <= cap)
        /\ \A i \in 1 .. n : i > cap => returned[i] = Undefined
        /\ BagCardinality(timers) = k
        /\ msgs[1].attempts = k

\* C4 witness: with maxAttempts 4, calls went on after the third.
C4_Witness ==
    /\ config.maxAttempts = 4
    /\ Len(returned) >= 6
    /\ returned[3].defined
    /\ returned[4] = Undefined
    /\ msgs[1].attempts = 3

\* C5: every requeue that schedules a retry uses the delay
\* backoffMultiplier^attempts * 1000 ms with attempts taken before the
\* increment: 1000, then each delay backoffMultiplier times the one before
\* (1000, 2000, 4000, 8000 for 2; 1000, 3000, 9000, 27000 for 3), and the
\* timers carry these delays.
C5_BackoffDelays ==
    LET m == config.backoffMultiplier
        expected == IF m = 1 THEN << 1000, 1000, 1000, 1000 >>
                    ELSE IF m = 2 THEN << 1000, 2000, 4000, 8000 >>
                    ELSE << 1000, 3000, 9000, 27000 >>
    IN  /\ \A i \in Scheduled :
              /\ i = 1 => returned[i].value = 1000
              /\ i > 1 => returned[i].value = m * returned[i - 1].value
              /\ (m <= 3 /\ i <= 4) => returned[i].value = expected[i]
        /\ { t.timeout : t \in BagToSet(timers) }
             = { returned[i].value : i \in Scheduled }

\* C5 witness: multiplier 3, four retries scheduled, the last after 27000 ms.
C5_Witness ==
    /\ config.backoffMultiplier = 3
    /\ Len(returned) >= 4
    /\ returned[4] = Number(27000)

\* A step that may settle a POST at endpoint e: every Response step at e
\* frees or hands over a slot of e, so it changes running[e] or queue[e].
SettlesAt(e) == running'[e] # running[e] \/ queue'[e] # queue[e]

\* C6: a POST that fails with no response, or with status 429 or >= 500,
\* invokes the retry protocol exactly once: when attempts is below
\* maxAttempts - 1, attempts of the task increases by exactly 1 and exactly
\* one re-admission (a timer for this endpoint and task) is scheduled.
C6_RetryableFailureRequeuesOnce ==
    [][ \A e \in Endpoints : \A m \in running[e] : SettlesAt(e) =>
        \A o \in Outcomes :
          ( /\ o.kind = "rejected"
            /\ (~o.response \/ o.status = 429 \/ o.status >= 500)
            /\ msgs[m].attempts < config.maxAttempts - 1
            /\ Response(e, m, o) )
          => /\ msgs'[m].attempts = msgs[m].attempts + 1
             /\ \A m2 \in Ids \ {m} : msgs'[m2] = msgs[m2]
             /\ BagCardinality(timers') = BagCardinality(timers) + 1
             /\ \E t \in BagToSet(timers') :
                   /\ t.ep = e /\ t.msg = m
                   /\ CopiesIn(t, timers') = CopiesIn(t, timers) + 1 ]_vars

\* C6 witness: after a retryable failure a retry of the task is pending on a
\* timer and its counter has been incremented.
C6_Witness ==
    \E e \in Endpoints : \E m \in Ids :
        /\ TimerPending(e, m)
        /\ Len(posted[e][m]) = 1
        /\ msgs[m].attempts = 1
        /\ fate[e][m] = "none"

\* C7: a POST that fails with a response whose status is neither 429 nor
\* >= 500 is never requeued: attempts is unchanged, no timer is scheduled and
\* the task completes as final.
C7_OtherStatusIsFinal ==
    [][ \A e \in Endpoints : \A m \in running[e] : SettlesAt(e) =>
        \A o \in Outcomes :
          ( /\ o.kind = "rejected"
            /\ o.response /\ o.status # 429 /\ o.status < 500
            /\ Response(e, m, o) )
          => /\ msgs' = msgs
             /\ timers' = timers
             /\ fate'[e][m] = "final"
             /\ ~Live(e, m)' ]_vars

\* C7 witness: a task ended as final after a rejected POST, never retried.
C7_Witness ==
    \E e \in Endpoints : \E m \in Ids :
        /\ fate[e][m] = "final"
        /\ Len(posted[e][m]) = 1
        /\ ~Live(e, m)

RECURSIVE SumLen(_)
\* The total length of the sequences of a sequence.
SumLen(ss) == IF ss = << >> THEN 0 ELSE Len(Head(ss)) + SumLen(Tail(ss))

RECURSIVE TotalPosts(_)
\* The number of POSTs made to the endpoints of the set E.
TotalPosts(E) ==
    IF E = {} THEN 0
    ELSE LET e == CHOOSE x \in E : TRUE
         IN  SumLen(posted[e]) + TotalPosts(E \ {e})

\* No task is queued, in flight or waiting on a timer.
Drained ==
    /\ \A e \in Endpoints : queue[e] = << >> /\ running[e] = {}
    /\ timers = EmptyBag

\* No message was dropped at a full queue and every POST was fulfilled.
AllSucceeded ==
    \A e \in Endpoints : \A m \in Ids :
        fate[e][m] = "success" /\ msgs[m].attempts = 0

\* C8: if every POST succeeds and no queue is full, then once the queues
\* have drained each message has been POSTed exactly once to each endpoint:
\* M messages and E endpoints give exactly M * E POSTs.
C8_OnePostPerMessageAndEndpoint ==
    (Drained /\ AllSucceeded)
    => /\ \A e \in Endpoints : \A m \in Ids : Len(posted[e][m]) = 1
       /\ TotalPosts(Endpoints) = Len(msgs) * Cardinality(Endpoints)

\* C8 witness: three messages went to two endpoints, all delivered.
C8_Witness ==
    /\ Drained /\ AllSucceeded
    /\ Len(msgs) = 3
    /\ Cardinality(Endpoints) = 2
    /\ TotalPosts(Endpoints) = 6

\* C9: every POST made for a message, to any endpoint and on any attempt,
\* carries the same body {topic, message, time}: the one built when the
\* message was received, with the time read then.
C9_SameBodyOnEveryPost ==
    \A m \in Ids :
        /\ msgs[m].data.time <= now
        /\ \A m2 \in Ids : m2 < m => msgs[m2].data.time <= msgs[m].data.time
        /\ \A e \in Endpoints : \A i \in 1 .. Len(posted[e][m]) :
              /\ posted[e][m][i] = msgs[m].data
              /\ posted[e][m][i] = posted[e][m][1]
              /\ \A e2 \in Endpoints : \A j \in 1 .. Len(posted[e2][m]) :
                    posted[e2][m][j] = posted[e][m][i]

\* C9 witness: a message received at time 0 was POSTed to two endpoints and
\* retried at one of them, and the clock has advanced since its reception.
C9_Witness ==
    \E m \in Ids : \E e, e2 \in Endpoints :
        /\ e # e2
        /\ msgs[m].data.time = 0 /\ now = 1
        /\ Len(posted[e][m]) = 2
        /\ Len(posted[e2][m]) >= 1

\* C10: admission is decided per endpoint: when a message arrives while the
\* queue of endpoint a is at capacity and the queue of endpoint b is below
\* capacity, the message is dropped for a and admitted to b.
C10_IndependentAdmission ==
    [][ Len(msgs') = Len(msgs) + 1 =>
          \A id \in { Len(msgs) + 1 } : \A a, b \in Endpoints :
              ( /\ Len(queue[a]) >= config.maxQueueLength
                /\ Len(queue[b]) < config.maxQueueLength )
              => /\ fate'[a][id] = "dropped"
                 /\ queue'[a] = queue[a] /\ running'[a] = running[a]
                 /\ ~Live(a, id)'
                 /\ fate'[b][id] = "none"
                 /\ Live(b, id)' ]_vars

\* C10 witness: a message was dropped at one endpoint and admitted at the
\* other.
C10_Witness ==
    \E m \in Ids : \E a, b \in Endpoints :
        /\ fate[a][m] = "dropped"
        /\ fate[b][m] # "dropped"

\* C11: when a message arrives and the queue length of an endpoint is
\* already >= maxQueueLength, the message is not added and the queue keeps
\* its contents and order; when the length is < maxQueueLength the message is
\* pushed at the tail (fastq hands it to the worker at once when a slot is
\* free, the waiting list being empty then).
C11_AdmissionFrame ==
    [][ Len(msgs') = Len(msgs) + 1 =>
          \A id \in { Len(msgs) + 1 } : \A e \in Endpoints :
              IF Len(queue[e]) >= config.maxQueueLength
              THEN /\ queue'[e] = queue[e]
                   /\ running'[e] = running[e]
                   /\ posted'[e][id] = << >>
              ELSE \/ /\ queue'[e] = Append(queue[e], id)
                      /\ running'[e] = running[e]
                   \/ /\ queue[e] = << >> /\ queue'[e] = << >>
                      /\ Cardinality(running[e]) < config.concurrency
                      /\ running'[e] = running[e] \cup {id} ]_vars

\* C11 witness: the third message met a full queue and was not added; the
\* second had been appended behind the one in flight.
C11_Witness ==
    \E e \in Endpoints :
        /\ config.maxQueueLength = 1
        /\ 1 \in running[e]
        /\ queue[e] = << 2 >>
        /\ Len(msgs) = 3 /\ fate[e][3] = "dropped"

\* C12: at most `concurrency` POSTs to an endpoint are outstanding at any
\* time; a task pushed while `concurrency` POSTs are in flight waits in the
\* queue, and a task starts only when a slot is free or is freed by the
\* completion of another in the same step.
C12_ConcurrencyLimit ==
    [][ \A e \in Endpoints :
          /\ Cardinality(running[e]) <= config.concurrency
          /\ Cardinality(running'[e]) <= config.concurrency
          /\ \A m \in running'[e] \ running[e] :
                \/ Cardinality(running[e]) < config.concurrency
                \/ \E m2 \in running[e] : m2 \notin running'[e] ]_vars

\* C12 witness: two POSTs are in flight with concurrency 2 and a third task
\* waits in the queue.
C12_Witness ==
    \E e \in Endpoints :
        /\ config.concurrency = 2
        /\ Cardinality(running[e]) = 2
        /\ queue[e] # << >>

\* The tasks the bridge holds for endpoint e: waiting, in flight, on a timer.
Held(e) ==
    Len(queue[e]) + Cardinality(running[e])
      + BagCardinality([ t \in { x \in BagToSet(timers) : x.ep = e }
                            |-> CopiesIn(t, timers) ])

\* C13: for every endpoint the number of tasks the bridge holds for it
\* (waiting, in flight or on a retry timer) never exceeds
\* maxQueueLength + concurrency.
C13_HeldTasksBounded ==
    \A e \in Endpoints : Held(e) <= config.maxQueueLength + config.concurrency

\* The messages refused by the queue of endpoint e.
Dropped(e) == { m \in Ids : fate[e][m] = "dropped" }

Min(a, b) == IF a < b THEN a ELSE b
Max(a, b) == IF a > b THEN a ELSE b

\* C14 as stated: with one endpoint and maxQueueLength 5, once 7 messages
\* have arrived and no POST has completed, the queue length is 5 and exactly
\* 2 messages were dropped.
C14_BurstAsStated ==
    messagesCount = 7 =>
        \A e \in Endpoints :
            Len(queue[e]) = 5 /\ Cardinality(Dropped(e)) = 2

\* C14, amended: the first `concurrency` messages of the burst are in
\* flight and are not counted by the queue length, so after n messages the
\* queue length is min(maxQueueLength, max(0, n - concurrency)) and
\* max(0, n - concurrency - maxQueueLength) messages were dropped: of 7
\* messages with maxQueueLength 5, one is dropped with concurrency 1 and
\* none with a larger concurrency.
C14_BurstQueueLength ==
    \A e \in Endpoints :
        LET n == messagesCount
            c == config.concurrency
        IN  /\ Cardinality(running[e]) = Min(n, c)
            /\ Len(queue[e]) = Min(config.maxQueueLength, Max(0, n - c))
            /\ Cardinality(Dropped(e))
                  = Max(0, n - c - config.maxQueueLength)

\* C14 witness: 7 messages arrived at a bridge with concurrency 1; 1 is in
\* flight, 5 are queued and 1 was dropped.
C14_Witness ==
    /\ messagesCount = 7
    /\ config.concurrency = 1 /\ config.maxQueueLength = 5
    /\ \A e \in Endpoints :
          /\ Len(queue[e]) = 5
          /\ Cardinality(running[e]) = 1
          /\ Dropped(e) = {7}

\* C15: with one endpoint whose POSTs all succeed, the bridge ends up
\* drained (queue length 0, nothing in flight) for good, and if the N
\* messages received are within maxQueueLength + concurrency the endpoint
\* has then received exactly N POSTs, one per message.
C15_AllDeliveredAndDrained ==
    <>[]( /\ Drained
          /\ Len(msgs) <= config.maxQueueLength + config.concurrency
               => /\ TotalPosts(Endpoints) = Len(msgs)
                  /\ \A e \in Endpoints : \A m \in Ids :
                        Len(posted[e][m]) = 1 )

\* C15 witness: three messages arrived at a bridge with concurrency 1 and
\* maxQueueLength 2, the endpoint received three POSTs and the queue is
\* empty again.
C15_Witness ==
    /\ Len(msgs) = 3
    /\ config.concurrency = 1 /\ config.maxQueueLength = 2
    /\ Drained
    /\ TotalPosts(Endpoints) = 3
    /\ \A e \in Endpoints : \A m \in Ids : fate[e][m] = "success"

\* C16: a failed connect attempt is never fatal: it always leaves a retry
\* timer pending (whatever the number of failures before it), the timer
\* leads to a new attempt, and a fulfilled attempt leads to the
\* subscriptions.
C16_ConnectRetriedForever ==
    /\ [](/\ broker.last = "connectFailed"
             => /\ broker.phase = "backoff"
                /\ Len(broker.delays) = broker.attempt
          /\ broker.last = "connected"
             => /\ broker.phase = "subscribing"
                /\ broker.subscribed = config.topics
          /\ broker.error # "connect")
    /\ (broker.phase = "backoff") ~> (broker.phase = "connecting")

\* C16 witness: the bridge went on to subscribe after four failed attempts.
C16_Witness ==
    /\ broker.attempt = 4
    /\ broker.connects = 5
    /\ broker.phase = "subscribing"

\* C17: the delay set after the k-th failed attempt (k = 0, 1, ...) is
\* min(brokerConnectBackoffMultiplier^k * 1000, maxBrokerConnectWait); the
\* delays never decrease and never exceed maxBrokerConnectWait.
C17_ConnectDelays ==
    \A i \in 1 .. Len(broker.delays) :
        /\ broker.delays[i]
              = Min(Pow(config.brokerConnectBackoffMultiplier, i - 1) * 1000,
                    config.maxBrokerConnectWait)
        /\ broker.delays[i] <= config.maxBrokerConnectWait
        /\ i > 1 => broker.delays[i - 1] <= broker.delays[i]

\* C17 witness: with multiplier 2 and a limit of 3000 ms the delays were
\* 1000, 2000, 3000, 3000.
C17_Witness ==
    broker.delays = << 1000, 2000, 3000, 3000 >>

\* C18: when a subscription fails the bridge does not come up: the process
\* has exited with the subscription error, subscribe was called once per
\* entry of config.topics and is not called again, no queue and no
\* 'message' handler exist, no message was counted or POSTed, and nothing
\* happens afterwards.
C18_SubscribeFailureIsFatal ==
    [][ /\ broker'.last = "subscribeFailed"
           => /\ broker'.phase = "exited"
              /\ broker'.error = "subscribe"
              /\ broker'.subscribed = config.topics
              /\ DOMAIN queue' = {}
              /\ ~broker'.listening
              /\ messagesCount' = 0
              /\ \A e \in Endpoints : posted'[e] = << >>
        /\ broker.phase # "exited" ]_vars

\* C18 witness: the first subscription of two was acknowledged, the second
\* failed, and the process has exited.
C18_Witness ==
    /\ broker.phase = "exited"
    /\ broker.last = "subscribeFailed"
    /\ config.topics = << "t1", "t2" >>
    /\ broker.pending = {2}

\* C19: subscribe is called once for each entry of config.topics, not
\* before a connect attempt has succeeded, and never again, whatever
\* 'connect' events the client emits later.
C19_SubscribedOnce ==
    broker.subscribed =
        IF broker.phase \in {"connecting", "backoff"}
        THEN << >>
        ELSE config.topics

\* C19 witness: the bridge connected at its second attempt, subscribed to
\* two topics, and its client has since emitted 'connect'.
C19_Witness ==
    /\ broker.phase = "ready"
    /\ broker.last = "connect"
    /\ broker.attempt = 1
    /\ broker.subscribed = << "t1", "t2" >>

\* C20: the value configured under the documented key backOffMultiplier is
\* the multiplier of the retry delays: once a table with
\* backOffMultiplier = m has been accepted, the delay requeue computes after
\* k failed attempts is m^k * 1000 ms.
C20_DocumentedMultiplierUsed ==
    (broker.phase = "connecting" /\ Has(config, "backOffMultiplier"))
    => \A k \in 0 .. 3 :
          RequeueTimeout(config, [attempts |-> k])
             = Pow(config["backOffMultiplier"], k) * 1000

\* C21: once the validation has accepted a bridge table, every numeric
\* setting the bridge uses is greater than 0.
C21_NumericSettingsPositive ==
    broker.phase = "connecting"
    => \A field \in { "concurrency", "maxAttempts", "backoffMultiplier",
                      "timeout", "maxQueueLength", "maxBrokerConnectWait",
                      "brokerConnectBackoffMultiplier" } :
          config[field] > 0

\* The number of retry timers pending for message m at endpoint e.
TimerCount(e, m) ==
    BagCardinality([ t \in { x \in BagToSet(timers) : x.ep = e /\ x.msg = m }
                       |-> CopiesIn(t, timers) ])

\* C23: when a retry timer fires and the queue of its endpoint already
\* holds maxQueueLength tasks or more, the task is dropped and the queue is
\* left unchanged.
C23_RetryAdmissionChecked ==
    [][ \A e \in Endpoints : \A m \in Ids :
          ( /\ TimerCount(e, m)' < TimerCount(e, m)
            /\ Len(queue[e]) >= config.maxQueueLength )
          => /\ queue'[e] = queue[e]
             /\ m \notin running'[e] ]_vars

\* C24: the step that sets a retry timer for a task is the step that adds 1
\* to its attempts; the step in which the timer fires hands the task back to
\* the queue and changes no attempts.
C24_AttemptCountedWhenScheduled ==
    [][ \A e \in Endpoints : \A m \in Ids :
          /\ TimerCount(e, m)' > TimerCount(e, m)
             => msgs'[m].attempts = msgs[m].attempts + 1
          /\ TimerCount(e, m)' < TimerCount(e, m)
             => /\ msgs' = msgs
                /\ Queued(e, m)' \/ m \in running'[e] ]_vars

\* C24 witness: a task was POSTed again after its timer had fired, with
\* attempts 1.
C24_Witness ==
    \E e \in Endpoints : \E m \in Ids :
        /\ Len(posted[e][m]) = 2
        /\ m \in running[e]
        /\ msgs[m].attempts = 1
        /\ Cardinality(Endpoints) = 1

\* The tasks that start delivery at endpoint e in a step.
Starts(e) == running'[e] \ running[e]

\* C25: within one endpoint the tasks start in queue order: a task leaves
\* the queue only from its head, to start; a retry timer belongs to the
\* endpoint on which the POST failed, and when it fires the task is put
\* behind every task waiting there (a push on an empty queue with a free
\* slot starts the task at once).
C25_FifoAndRetryAtTail ==
    [][ \A e \in Endpoints :
          /\ \/ queue'[e] = queue[e]
             \/ /\ queue[e] # << >>
                /\ queue'[e] = Tail(queue[e])
                /\ Starts(e) = { Head(queue[e]) }
             \/ /\ \E m \in 1 .. Len(msgs') : queue'[e] = Append(queue[e], m)
                /\ Starts(e) = {}
          /\ Starts(e) # {} /\ queue'[e] = queue[e] => queue[e] = << >>
          /\ \A m \in Ids :
                /\ TimerCount(e, m)' > TimerCount(e, m)
                   => m \in running[e] /\ m \notin running'[e]
                /\ TimerCount(e, m)' < TimerCount(e, m)
                   => \/ queue'[e] = Append(queue[e], m)
                      \/ queue[e] = << >> /\ Starts(e) = {m} ]_vars

\* C25 witness: the first message failed, waited on its timer and was put
\* back behind the third, which had arrived in between.
C25_Witness ==
    \E e \in Endpoints :
        /\ queue[e] = << 3, 1 >>
        /\ msgs[1].attempts = 1
        /\ 2 \in running[e]

\* C26: the task of message m at endpoint e has 0 <= attempts <=
\* maxAttempts - 1; its attempts never decrease, and they change only in a
\* step in which a POST of that task, to that endpoint, was settled.
C26_AttemptsOfTask ==
    [][ \A e \in Endpoints : \A m \in Ids :
          /\ 0 <= msgs'[m].attempts
          /\ msgs'[m].attempts <= config.maxAttempts - 1
          /\ msgs'[m].attempts >= msgs[m].attempts
          /\ msgs'[m].attempts # msgs[m].attempts
             => m \in running[e] /\ m \notin running'[e] ]_vars

\* C29: no 'message' event of the client goes by without a handler: every
\* message emitted after the subscriptions were issued is counted.
C29_NoMessageUnheard ==
    broker.unheard = 0

\* The number of times message m stands in the waiting list of endpoint e.
QueueCount(e, m) == Cardinality({ i \in 1 .. Len(queue[e]) : queue[e][i] = m })

\* The live instances of the task of message m at endpoint e.
LiveCount(e, m) ==
    QueueCount(e, m) + (IF m \in running[e] THEN 1 ELSE 0) + TimerCount(e, m)

\* C30: for every message and endpoint the task is in exactly one of
\* waiting, in flight and on a retry timer, until it has terminated
\* (delivered, refused, abandoned or dropped), and then in none; a timer of
\* a task is never set for, nor a task started at, an endpoint where the
\* task is live already.
C30_OneLiveInstance ==
    [][ \A e \in Endpoints : \A m \in 1 .. Len(msgs') :
          /\ LiveCount(e, m)' = (IF fate'[e][m] = "none" THEN 1 ELSE 0)
          /\ m \in Starts(e) => TimerCount(e, m)' = 0 /\ ~Queued(e, m)'
          /\ TimerCount(e, m)' > TimerCount(e, m)
             => TimerCount(e, m) = 0 /\ m \in running[e] ]_vars

\* C30 witness: one message is on a retry timer at one endpoint, in flight
\* at the other, and nowhere else.
C30_Witness ==
    /\ Endpoints = {"A", "B"}
    /\ TimerCount("A", 1) = 1 /\ LiveCount("A", 1) = 1
    /\ 1 \in running["B"] /\ LiveCount("B", 1) = 1

\* The task of message m at endpoint e has ended: delivered, refused with
\* a status that is not retried, abandoned at the attempt cap, or never
\* admitted.
Terminated(e, m) == fate[e][m] \in {"success", "final", "abandoned", "dropped"}

\* C28: the settlement of a POST gives the slot back in the same step, after
\* the outcome was classified and the retry timer set: the task is in flight
\* no more, it has a timer or has terminated, and the slot is free or taken
\* by the head of the queue; and when every POST is settled in the end,
\* every task terminates in the end and holds no slot afterwards.
C28_SlotReleasedAndTerminates ==
    /\ [][ \A e \in Endpoints : \A m \in running[e] :
             ( \/ fate'[e][m] # fate[e][m]
               \/ TimerCount(e, m)' > TimerCount(e, m)
               \/ m \notin running'[e] )
             => /\ m \notin running'[e]
                /\ TimerCount(e, m)' = 1 \/ Terminated(e, m)'
                /\ Cardinality(running'[e]) =
                      IF queue[e] # << >>
                      THEN Cardinality(running[e])
                      ELSE Cardinality(running[e]) - 1 ]_vars
    /\ <>[](\A e \in Endpoints : \A m \in Ids :
               Terminated(e, m) /\ LiveCount(e, m) = 0)

\* C28 witness: a task was abandoned at the attempt cap after a retry, a
\* second was refused, a third delivered, and no slot is held.
C28_Witness ==
    \E e \in Endpoints :
        /\ Len(msgs) = 3
        /\ { fate[e][m] : m \in Ids } = {"abandoned", "final", "success"}
        /\ \E m \in Ids : Len(posted[e][m]) = 2
        /\ running[e] = {} /\ queue[e] = << >> /\ timers = EmptyBag

\* The number of error records about the attempts of message m at e.
ErrorsOf(e, m) == CopiesIn(Record("error", "maxAttempts", e, m), logged)

\* The records of level error.
ErrorRecords ==
    [ r \in { x \in BagToSet(logged) : x.level = "error" }
        |-> CopiesIn(r, logged) ]

\* C27: the settlement of a POST that failed retryably with attempts at
\* maxAttempts - 1 sets no timer, puts the task in no queue and adds exactly
\* one error record for its message and endpoint; a settlement that sets a
\* retry timer, a success and a failure that is not retried add no error
\* record; so there is one such record for an abandoned task and none for
\* any other.
C27_OneErrorRecordAtTheCap ==
    [][ \A e \in Endpoints : \A m \in running[e] :
          /\ m \notin running'[e] /\ fate'[e][m] = "abandoned"
             => /\ msgs[m].attempts = config.maxAttempts - 1
                /\ LiveCount(e, m)' = 0
                /\ ErrorsOf(e, m) = 0 /\ ErrorsOf(e, m)' = 1
                /\ BagCardinality(ErrorRecords')
                      = BagCardinality(ErrorRecords) + 1
          /\ m \notin running'[e] /\ fate'[e][m] # "abandoned"
             => /\ ErrorRecords' = ErrorRecords
                /\ ErrorsOf(e, m)' = 0 ]_vars

\* C27 witness: one task was abandoned at the attempt cap after a retry and
\* has one error record; another was refused with a status that is not
\* retried and has none.
C27_Witness ==
    \E e \in Endpoints : \E m, n \in Ids :
        /\ fate[e][m] = "abandoned" /\ Len(posted[e][m]) = 2
        /\ ErrorsOf(e, m) = 1
        /\ fate[e][n] = "final" /\ ErrorsOf(e, n) = 0
        /\ BagCardinality(ErrorRecords) = 1

\* C22: while the other bridge of the process fails to connect again and
\* again, no step of the bridge waits for it: the bridge is created, its
\* connect attempt, its subscriptions and its POSTs can be settled in every
\* state, whatever the state of the other bridge; no step of the other
\* bridge changes anything of the bridge; and the bridge comes up, listens
\* and delivers what it receives.
C22_BridgesIndependent ==
    /\ []( /\ broker.phase = "pending" /\ sibling.phase # "pending"
              => ENABLED CreateBridge
           /\ broker.phase = "connecting" => ENABLED ConnectSucceeded
           /\ broker.phase = "subscribing"
              => ENABLED (\E i \in broker.pending : SubscribeSettled(i, TRUE))
           /\ \A e \in DOMAIN running : \A m \in running[e] :
                 ENABLED Success(e, m) )
    /\ [][ sibling' # sibling
           => UNCHANGED << config, now, messagesCount, msgs, queue, running,
                           timers, posted, fate, returned, broker >> ]_vars
    /\ <>[]( /\ broker.phase = "ready" /\ broker.listening
             /\ sibling.phase \in {"connecting", "backoff"}
             /\ \A e \in Endpoints : \A m \in Ids :
                   fate[e][m] \in {"success", "dropped"} )

\* C22 witness: the other bridge has failed three times and waits for its
\* timer; the bridge has received a message and delivered it.
C22_Witness ==
    /\ sibling.phase = "backoff" /\ sibling.attempt = 3
    /\ broker.phase = "ready"
    /\ messagesCount >= 1
    /\ \E e \in Endpoints : fate[e][1] = "success"

\* C31: there is one connect attempt outstanding or one connect timer
\* pending, never both and never more: while the timer is pending the
\* connect calls are as many as the failed attempts; otherwise they are the
\* failed attempts plus one, and once an attempt has succeeded no further
\* connect call is made and no timer is left.
C31_OneConnectAtATime ==
    [][ /\ broker'.connects =
              IF broker'.phase = "backoff"
              THEN broker'.attempt
              ELSE broker'.attempt + 1
        /\ Len(broker'.delays) = broker'.attempt
        /\ broker.phase \notin {"connecting", "backoff"}
           => /\ broker'.connects = broker.connects
              /\ broker'.attempt = broker.attempt
              /\ broker'.phase \notin {"connecting", "backoff"} ]_vars

\* C31 witness: the third connect call succeeded after two failures, and
\* the client has emitted 'connect' since.
C31_Witness ==
    /\ broker.phase = "ready"
    /\ broker.last = "connect"
    /\ broker.attempt = 2
    /\ broker.connects = 3

\* ---------------------------------------------------------------------
\* Diagnostics of the process (index.js)

\* The bridges array of index.js: a bridge is pushed by the then of the
\* creation loop, that is when the promise of module.exports is fulfilled.
bridges ==
    IF broker.phase = "ready" THEN << "bridge" >> ELSE << >>

\* getMessageCount of bridge b.
getMessageCount(b) == messagesCount

\* getQueueLength of bridge b: the number of waiting tasks of every queue.
getQueueLength(b) == [ e \in DOMAIN queue |-> Len(queue[e]) ]

RECURSIVE SumFrom(_, _, _)
\* The callback (a, c) => a + c folded over array[i..] from accumulator a.
SumFrom(array, i, a) ==
    IF i > Len(array) THEN a ELSE SumFrom(array, i + 1, a + array[i])

\* Array.prototype.reduce with no initial value: the first element is the
\* accumulator, and an empty array throws a TypeError.
Reduce(array) ==
    IF array = << >>
    THEN [ thrown |-> TRUE, value |-> 0 ]
    ELSE [ thrown |-> FALSE, value |-> SumFrom(array, 2, array[1]) ]

\* The interval timer fires and printDiagnostics runs.  An exception
\* thrown by the callback of a timer is uncaught and ends the process.
PrintDiagnostics ==
    /\ diagnostics.enabled
    /\ broker.phase # "exited"
    /\ LET queueLengths == [ i \in DOMAIN bridges |->
                                getQueueLength(bridges[i]) ]
           messageCount == Reduce([ i \in DOMAIN bridges |->
                                       getMessageCount(bridges[i]) ])
       IN  IF messageCount.thrown
           THEN /\ broker' = [broker EXCEPT !.phase = "exited",
                                            !.error = "TypeError",
                                            !.last = "diagnostics"]
                /\ UNCHANGED diagnostics
           ELSE /\ diagnostics' =
                      [ enabled |-> TRUE,
                        lastMessageCount |-> messageCount.value,
                        reported |-> TRUE,
                        queueLengths |-> queueLengths,
                        messageCount |-> messageCount.value,
                        incremental |-> messageCount.value
                                          - diagnostics.lastMessageCount ]
                /\ UNCHANGED broker
    /\ UNCHANGED << config, now, messagesCount, msgs, queue, running, timers,
                    posted, fate, returned, logged, sibling >>

\* The configurations of the diagnostics runs.
DiagnosticsConfigs ==
    { c \in ConnectConfigs : /\ c.brokerConnectBackoffMultiplier = 2
                             /\ c.maxBrokerConnectWait = 3000 }

\* PRINT_DIAGNOSTICS is 'true': the creation loop has called bridge(), the
\* interval timer is set and lastMessageCount is 0.
InitDiagnostics ==
    /\ config \in DiagnosticsConfigs
    /\ now = 0
    /\ messagesCount = 0
    /\ msgs = << >>
    /\ queue = << >>
    /\ running = << >>
    /\ timers = EmptyBag
    /\ posted = [ e \in Endpoints |-> << >> ]
    /\ fate = [ e \in Endpoints |-> << >> ]
    /\ returned = << >>
    /\ logged = EmptyBag
    /\ sibling = NoSibling
    /\ diagnostics = [NoDiagnostics EXCEPT !.enabled = TRUE]
    /\ broker = [ phase |-> "connecting", attempt |-> 0, connects |-> 1,
                  delays |-> << >>, subscribed |-> << >>, pending |-> {},
                  listening |-> FALSE, unheard |-> 0, last |-> "start",
                  error |-> "" ]

NextDiagnostics ==
    \/ NextConnect
    \/ PrintDiagnostics

SpecDiagnostics ==
    InitDiagnostics /\ [][NextDiagnostics]_vars

\* C32: with diagnostics enabled no tick of the interval timer raises an
\* error, whatever the state of the bridges, also while no bridge has
\* finished connecting; every tick reports the queue lengths and the
\* cumulative message count of the bridges created so far, and the
\* incremental count it reports is never negative.
C32_TicksComplete ==
    diagnostics.enabled
    => /\ broker.error # "TypeError"
       /\ diagnostics.reported
          => /\ diagnostics.incremental >= 0
             /\ diagnostics.messageCount <= messagesCount
             /\ Len(diagnostics.queueLengths) <= Len(bridges)

\* The part of C32 the code keeps: a tick that reports, reports the count
\* of that moment and an increment that is not negative.
DiagnosticsReportSound ==
    diagnostics.reported
    => /\ diagnostics.incremental >= 0
       /\ diagnostics.messageCount <= messagesCount
       /\ diagnostics.lastMessageCount = diagnostics.messageCount

====
